---- MODULE Spec2Model ----
(***************************************************************************)
(* Model of report.py (Fail2BanIPLookup): the banned addresses are read    *)
(* from the iptables listing, every address is looked up concurrently      *)
(* through one aiohttp session whose connector admits at most              *)
(* max_concurrent_requests connections to the lookup host, the results     *)
(* are written to the module-level dictionary banned_ips, and the          *)
(* dictionary is saved as a spreadsheet and announced by two messages.     *)
(*                                                                         *)
(* Coroutines run on one event loop: a coroutine runs without interruption *)
(* from one await to the next.  The labels of pc are the program points of *)
(* fetch_ip_data; the labels in SuspensionPoints are its awaits.           *)
(***************************************************************************)
EXTENDS Integers, Sequences, FiniteSets, TLC

(* ---------------- bounds of the model ---------------- *)
MaxLines == 3      \* lines of the iptables listing
MaxN == 2          \* max_concurrent_requests ranges over 1..MaxN

(* ---------------- values ---------------- *)
\* The addresses that occur in a listing.  An address is a number; the order
\* of the numbers stands for the lexicographic order of the dotted-quad
\* strings.  A run has at most min(Cardinality(IPs), MaxLines) keys.
IPs == {1, 2, 3}
\* A line is a sequence of tokens: 0 is a token that ban_regex does not
\* match, a positive token is the address it matches.
Word == 0
\* "num target prot opt source destination": the source address comes first,
\* a second IPv4-shaped token (the destination) follows it.
RuleLine(a) == <<Word, a, (a % Cardinality(IPs)) + 1>>
HeaderLine == <<Word>>
LineSet == {HeaderLine} \cup {RuleLine(a) : a \in IPs}
RECURSIVE SeqsUpTo(_, _)
SeqsUpTo(S, n) ==
    IF n = 0 THEN {<<>>}
    ELSE LET shorter == SeqsUpTo(S, n - 1)
         IN  shorter \cup {Append(s, x) : s \in {t \in shorter : Len(t) = n - 1}, x \in S}
Listings == SeqsUpTo(LineSet, MaxLines)

None == "None"
\* banned_ips = defaultdict(lambda: {"country": None, "city": None, "provider": None})
default_factory == [country |-> None, city |-> None, provider |-> None]

\* JSON bodies of the lookup service.  Every field says how deep the path
\* country.names.en / city.names.en / traits.isp exists in the body.
Body(c, t, p) == [country |-> c, city |-> t, traits |-> p]
Bodies == { Body("Val", "Val", "Val"),
            Body("NoEn", "Val", "NoIsp"),
            Body("Val", "NoKey", "Val"),
            Body("Val", "NoNames", "Val"),
            Body("Val", "Val", "NoKey"),
            Body("NoKey", "Val", "Val") }
\* no body parsed (yet)
NoData == Body("NoData", "NoData", "NoData")
\* a body that response.json() cannot parse
Malformed == Body("Malformed", "Malformed", "Malformed")
Statuses == {200, 404}
NetErrors == {"ClientError"}

VARIABLES
    listing,                  \* ip_lines, local of fetch_ips_from_iptables
    max_concurrent_requests,  \* settings["max_concurrent_requests"]
    phase,                    \* position of main()
    order,                    \* keys of banned_ips in insertion order
    banned_ips,               \* banned_ips: key -> {country, city, provider}
    pc,                       \* position of the fetch_ip_data task of each key
    data,                     \* local of fetch_ip_data: the parsed body
    exc,                      \* exception in flight in fetch_ip_data
    status,                   \* history: how the lookup of each key ended
    acquired,                 \* connector: connections held for the host
    waiters,                  \* connector: requests waiting for a connection
    total,                    \* progress bar: task.total
    completed,                \* progress bar: task.completed
    console,                  \* keys of the error lines printed by line 79
    rows,                     \* rows appended to the sheet by save_to_excel
    sent                      \* notification calls made and their status

vars == <<listing, max_concurrent_requests, phase, order, banned_ips, pc,
          data, exc, status, acquired, waiters, total, completed, console, rows, sent>>

mainVars == <<listing, max_concurrent_requests, order, rows, sent, total>>

Range(s) == {s[i] : i \in 1..Len(s)}

Init ==
    /\ listing = <<>>
    /\ max_concurrent_requests \in 1..MaxN
    /\ phase = "Idle"
    /\ order = <<>>
    /\ banned_ips = [ip \in {} |-> default_factory]
    /\ pc = [ip \in IPs |-> "none"]
    /\ data = [ip \in IPs |-> NoData]
    /\ exc = [ip \in IPs |-> None]
    /\ status = [ip \in IPs |-> "none"]
    /\ acquired = 0
    /\ waiters = <<>>
    /\ total = 0
    /\ completed = 0
    /\ console = <<>>
    /\ rows = <<>>
    /\ sent = <<>>

(* ---------------- fetch_ips_from_iptables ---------------- *)
\* ban_regex = re.compile(r"(\d+\.\d+\.\d+\.\d+)")
ban_regex(tok) == tok # Word

\* variant: the last match of the line
search_last(line) ==
    IF \A i \in 1..Len(line) : ~ban_regex(line[i]) THEN Word
    ELSE line[CHOOSE i \in 1..Len(line) :
                ban_regex(line[i]) /\ \A j \in (i + 1)..Len(line) : ~ban_regex(line[j])]
\* ban_regex.search(line): the first match of the line, Word when none
RECURSIVE search(_)
search(line) ==
    IF line = <<>> THEN Word
    ELSE IF ban_regex(Head(line)) THEN Head(line)
    ELSE search(Tail(line))

\* variant: a list that appends every match
touch_dup(keys, ip) == Append(keys, ip)
\* banned_ips[ip] on a defaultdict: inserts the key at the end when missing
touch(keys, ip) == IF ip \in Range(keys) THEN keys ELSE Append(keys, ip)

\* for line in ip_lines: match = ban_regex.search(line); if match: banned_ips[ip]
RECURSIVE scan(_, _)
scan(keys, lines) ==
    IF lines = <<>> THEN keys
    ELSE LET ip == search(Head(lines))
         IN  scan(IF ip # Word THEN touch(keys, ip) ELSE keys, Tail(lines))

main_start ==
    /\ phase = "Idle"
    /\ phase' = "Discovering"
    /\ UNCHANGED <<listing, max_concurrent_requests, order, banned_ips, pc,
                   data, exc, status, acquired, waiters, total,
                   completed, console, rows, sent>>

\* line 55-61: subprocess.run returns the listing (empty when iptables
\* fails with a non-zero exit) or raises (iptables missing); the exception
\* is printed and swallowed, and the function returns
\* variant: the exception is not caught and leaves main
except_68_uncaught == "Aborted"
\* line 67-68: except Exception prints the error, the function returns
except_68 == "Discovered"
subprocess_run ==
    /\ phase = "Discovering"
    /\ \E stdout \in Listings, raised \in BOOLEAN :
         IF raised
         THEN /\ console' = Append(console, Word)
              /\ phase' = except_68
              /\ UNCHANGED listing
         ELSE /\ listing' = stdout
              /\ phase' = "Listed"
              /\ UNCHANGED console
    /\ UNCHANGED <<max_concurrent_requests, order, banned_ips, pc, data, exc,
                   status, acquired, waiters, total, completed,
                   rows, sent>>

\* line 62-66: the loop over the lines
fetch_ips_from_iptables ==
    /\ phase = "Listed"
    /\ LET keys == scan(order, listing)
       IN  /\ order' = keys
           /\ banned_ips' = [ip \in Range(keys) |-> default_factory]
           /\ status' = [ip \in IPs |-> IF ip \in Range(keys) THEN "pending" ELSE "none"]
    /\ phase' = "Discovered"
    /\ UNCHANGED <<listing, max_concurrent_requests, pc, data, exc, acquired,
                   waiters, total, completed, console, rows, sent>>

(* ---------------- process_ips ---------------- *)
\* variant: a task for every address, key or not
coros_all == IPs
\* [fetch_ip_data(session, ip, task, bar) for ip in banned_ips]
coros == DOMAIN banned_ips
\* fetch_ips_from_iptables has returned (ip_lines is gone); process_ips
\* creates the session and the progress bar, and asyncio.gather schedules
\* one fetch_ip_data task per key of banned_ips
process_ips ==
    /\ phase = "Discovered"
    /\ phase' = "Enriching"
    /\ listing' = <<>>
    /\ total' = Len(order)
    /\ pc' = [ip \in IPs |-> IF ip \in coros THEN "ready" ELSE "none"]
    /\ UNCHANGED <<max_concurrent_requests, order, banned_ips, data,
                   exc, status, acquired, waiters, completed, console, rows, sent>>

(* ---------------- the event loop ---------------- *)
\* variant: an await between the assignments of lines 75 and 76
SuspensionPoints_split == {"ready", "waiting", "get", "json", "l76"}
\* variant: the body is read with a blocking call
SuspensionPoints_block == {"ready", "waiting", "get"}
\* the awaits of fetch_ip_data: a task at one of these labels is suspended
SuspensionPoints == {"ready", "waiting", "get", "json"}
Ended == {"none", "done", "raised"}
\* no task is between two awaits: the loop can run the next callback
LoopFree == \A ip \in IPs : pc[ip] \in SuspensionPoints \cup Ended
\* tasks scheduled by gather run before any I/O callback
AllStarted == \A ip \in IPs : pc[ip] # "ready"

(* ---------------- the connector ---------------- *)
\* TCPConnector(limit_per_host=max_concurrent_requests)
limit_per_host == max_concurrent_requests
\* variant: a connector without a limit per host
available_nolimit(acq) == 1
available(acq) == limit_per_host - acq

\* variant: the youngest waiter is woken
release_waiter_lifo(acq, w) ==
    IF w # <<>> /\ available(acq) >= 1 THEN w[Len(w)] ELSE Word
\* the waiter that a release wakes: the oldest one (0: nobody)
release_waiter(acq, w) ==
    IF w # <<>> /\ available(acq) >= 1 THEN Head(w) ELSE Word

RemoveFrom(w, ip) == SelectSeq(w, LAMBDA x : x # ip)
\* variant: the connection is not given back when the call raised
release_leak(ip, next) ==
    LET woken == IF next = "except" THEN Word
                 ELSE release_waiter(acquired - 1, waiters)
    IN  /\ acquired' = IF next = "except" \/ woken # Word
                       THEN acquired ELSE acquired - 1
        /\ waiters' = RemoveFrom(waiters, woken)
        /\ pc' = [p \in IPs |-> IF p = ip THEN next
                                ELSE IF p = woken THEN "get" ELSE pc[p]]
\* the response is released (status not 200, body read to its end, error,
\* timeout): the connection is given back to the connector, which hands it
\* to the woken waiter
release(ip, next) ==
    LET woken == release_waiter(acquired - 1, waiters)
    IN  /\ acquired' = IF woken = Word THEN acquired - 1 ELSE acquired
        /\ waiters' = RemoveFrom(waiters, woken)
        /\ pc' = [p \in IPs |-> IF p = ip THEN next
                                ELSE IF p = woken THEN "get" ELSE pc[p]]

(* ---------------- fetch_ip_data ---------------- *)
\* variant: except aiohttp.ClientError
Exception_narrow == {"ClientError"}
\* except Exception as e
Exception == {"ClientError", "TimeoutError", "ContentTypeError", "KeyError"}
\* variant: the call is started again after an error
Raise_retry(e) == "ready"
\* where control goes when e is raised inside the try
Raise(e) == IF e \in Exception THEN "except" ELSE "finally"

\* the task starts and runs into session.get: the connector admits it or
\* queues it
task_start(ip) ==
    /\ phase = "Enriching"
    /\ LoopFree
    /\ pc[ip] = "ready"
    /\ \E j \in 1..Len(order) :
         order[j] = ip /\ \A i \in 1..(j - 1) : pc[order[i]] # "ready"
    /\ IF available(acquired) <= 0 \/ waiters # <<>>
       THEN /\ waiters' = Append(waiters, ip)
            /\ pc' = [pc EXCEPT ![ip] = "waiting"]
            /\ UNCHANGED acquired
       ELSE /\ acquired' = acquired + 1
            /\ pc' = [pc EXCEPT ![ip] = "get"]
            /\ UNCHANGED waiters
    /\ UNCHANGED <<mainVars, phase, banned_ips, data, exc, status,
                   completed, console>>

IOReady(ip) == phase = "Enriching" /\ LoopFree /\ AllStarted /\ ip \in IPs

\* line 72-73: the response head arrives
response(ip) ==
    /\ IOReady(ip)
    /\ pc[ip] = "get"
    /\ \E st \in Statuses :
         IF st = 200
         THEN /\ pc' = [pc EXCEPT ![ip] = "json"]
              /\ UNCHANGED <<acquired, waiters, status>>
         ELSE /\ release(ip, "finally")
              /\ status' = [status EXCEPT ![ip] = "failed"]
    /\ UNCHANGED <<mainVars, phase, banned_ips, data, exc, completed, console>>

\* line 72: the request fails (connection refused, reset, ...)
request_error(ip) ==
    /\ IOReady(ip)
    /\ pc[ip] = "get"
    /\ \E e \in NetErrors :
         /\ exc' = [exc EXCEPT ![ip] = e]
         /\ release(ip, Raise(e))
    /\ status' = [status EXCEPT ![ip] = "failed"]
    /\ UNCHANGED <<mainVars, phase, banned_ips, data, completed, console>>

\* line 74: the body arrives and response.json() parses it
json(ip) ==
    /\ IOReady(ip)
    /\ pc[ip] = "json"
    /\ \E b \in Bodies \cup {Malformed} :
         IF b = Malformed
         THEN /\ exc' = [exc EXCEPT ![ip] = "ContentTypeError"]
              /\ release(ip, Raise("ContentTypeError"))
              /\ status' = [status EXCEPT ![ip] = "failed"]
              /\ UNCHANGED data
         ELSE /\ data' = [data EXCEPT ![ip] = b]
              /\ release(ip, "l75")
              /\ UNCHANGED <<exc, status>>
    /\ UNCHANGED <<mainVars, phase, banned_ips, completed,
                   console>>

\* variant: a timeout that covers only the wait for a connection
expires_connect(label) == label = "waiting"
\* the session is created without a timeout argument: aiohttp's default
\* total timeout covers the wait for a connection, the request and the body
expires(label) == label \in {"waiting", "get", "json"}
timeout(ip) ==
    /\ IOReady(ip)
    /\ expires(pc[ip])
    /\ exc' = [exc EXCEPT ![ip] = "TimeoutError"]
    /\ status' = [status EXCEPT ![ip] = "failed"]
    /\ IF pc[ip] = "waiting"
       THEN /\ waiters' = RemoveFrom(waiters, ip)
            /\ pc' = [pc EXCEPT ![ip] = Raise("TimeoutError")]
            /\ UNCHANGED acquired
       ELSE release(ip, Raise("TimeoutError"))
    /\ UNCHANGED <<mainVars, phase, banned_ips, data, completed, console>>

KeyError == "KeyError"
\* data[k]["names"].get("en", "") and data["traits"].get("isp", "")
extract(level, val) ==
    CASE level \in {"NoKey", "NoNames"} -> KeyError
      [] level \in {"NoEn", "NoIsp"} -> ""
      [] OTHER -> val

\* variant: the field is set in the record of the last key
assign_other(ip, label, field, level, val, next) ==
    /\ phase = "Enriching"
    /\ pc[ip] = label
    /\ LET v == extract(level, val)
       IN  IF v = KeyError
           THEN /\ exc' = [exc EXCEPT ![ip] = KeyError]
                /\ pc' = [pc EXCEPT ![ip] = Raise(KeyError)]
                /\ status' = [status EXCEPT ![ip] = "failed"]
                /\ UNCHANGED banned_ips
           ELSE /\ banned_ips' = [banned_ips EXCEPT ![order[Len(order)]][field] = v]
                /\ pc' = [pc EXCEPT ![ip] = next]
                /\ status' = IF next = "finally"
                             THEN [status EXCEPT ![ip] = "ok"] ELSE status
                /\ UNCHANGED exc
    /\ UNCHANGED <<mainVars, phase, data, acquired, waiters,
                   completed, console>>
\* one assignment of lines 75-77: the field is set, or the subscript raises
assign(ip, label, field, level, val, next) ==
    /\ phase = "Enriching"
    /\ pc[ip] = label
    /\ LET v == extract(level, val)
       IN  IF v = KeyError
           THEN /\ exc' = [exc EXCEPT ![ip] = KeyError]
                /\ pc' = [pc EXCEPT ![ip] = Raise(KeyError)]
                /\ status' = [status EXCEPT ![ip] = "failed"]
                /\ UNCHANGED banned_ips
           ELSE /\ banned_ips' = [banned_ips EXCEPT ![ip][field] = v]
                /\ pc' = [pc EXCEPT ![ip] = next]
                /\ status' = IF next = "finally"
                             THEN [status EXCEPT ![ip] = "ok"] ELSE status
                /\ UNCHANGED exc
    /\ UNCHANGED <<mainVars, phase, data, acquired, waiters,
                   completed, console>>

line75(ip) == assign(ip, "l75", "country", data[ip].country, "US", "l76")
line76(ip) == assign(ip, "l76", "city", data[ip].city, "Mountain View", "l77")
line77(ip) == assign(ip, "l77", "provider", data[ip].traits, "Google", "finally")

\* line 78-79: the exception is printed and dropped
handler(ip) ==
    /\ phase = "Enriching"
    /\ pc[ip] = "except"
    /\ console' = Append(console, ip)
    /\ exc' = [exc EXCEPT ![ip] = None]
    /\ pc' = [pc EXCEPT ![ip] = "finally"]
    /\ UNCHANGED <<mainVars, phase, banned_ips, data, status,
                   acquired, waiters, completed>>

\* variant: the bar is advanced by the number of the key
update_by_key(c, ip) == c + ip
\* progress_bar.update(progress_task, advance=1)
update(c, ip) == c + 1
\* line 80-81: the bar advances; a pending exception goes on to gather
finally(ip) ==
    /\ phase = "Enriching"
    /\ pc[ip] = "finally"
    /\ completed' = update(completed, ip)
    /\ data' = [data EXCEPT ![ip] = NoData]
    /\ pc' = [pc EXCEPT ![ip] = IF exc[ip] = None THEN "done" ELSE "raised"]
    /\ UNCHANGED <<mainVars, phase, banned_ips, exc, status,
                   acquired, waiters, console>>

\* await asyncio.gather(...): returns when every task has returned, raises
\* as soon as one task has raised
\* variant: the join is over when the first task is done
returned_first == \E ip \in DOMAIN banned_ips : pc[ip] = "done"
\* gather's future is done when every task is done
returned == \A ip \in DOMAIN banned_ips : pc[ip] = "done"
gather ==
    /\ phase = "Enriching"
    /\ LoopFree
    /\ \/ returned
       \/ \E ip \in DOMAIN banned_ips : pc[ip] = "raised"
    /\ phase' = IF \E ip \in DOMAIN banned_ips : pc[ip] = "raised"
                THEN "Aborted" ELSE "Completed"
    /\ UNCHANGED <<listing, max_concurrent_requests, order, banned_ips, pc,
                   data, exc, status, acquired, waiters, total,
                   completed, console, rows, sent>>

(* ---------------- save_to_excel ---------------- *)
datetime_min == 0
\* variant: the rows sorted by address
sort_key_ip(item) == item[1]
\* key=lambda x: x[1].get("time", datetime.min)
sort_key(item) == IF "time" \in DOMAIN item[2] THEN item[2]["time"] ELSE datetime_min

\* sorted(): stable, an item goes behind the items whose key is not larger
RECURSIVE insert(_, _)
insert(s, x) ==
    IF s = <<>> THEN <<x>>
    ELSE IF sort_key(s[Len(s)]) <= sort_key(x) THEN Append(s, x)
    ELSE Append(insert(SubSeq(s, 1, Len(s) - 1), x), s[Len(s)])
RECURSIVE sorted(_)
sorted(s) ==
    IF s = <<>> THEN <<>>
    ELSE insert(sorted(SubSeq(s, 1, Len(s) - 1)), s[Len(s)])

\* banned_ips.items(), in insertion order
items == [i \in 1..Len(order) |-> <<order[i], banned_ips[order[i]]>>]
\* data.get(field, "")
get(d, field, default) == IF field \in DOMAIN d THEN d[field] ELSE default
row(item) == <<item[1], get(item[2], "country", ""), get(item[2], "city", ""),
               get(item[2], "provider", "")>>

save_to_excel ==
    /\ phase = "Completed"
    /\ rows' = LET s == sorted(items) IN [i \in 1..Len(s) |-> row(s[i])]
    /\ phase' = "Saved"
    /\ UNCHANGED <<listing, max_concurrent_requests, order, banned_ips, pc,
                   data, exc, status, acquired, waiters, total,
                   completed, console, sent>>

(* ---------------- notification ---------------- *)
\* the statuses the bot API answers with
PostStatuses == {200, 400}
\* what console.print writes at line 141 and at line 152
stats_error == 0 - 1
file_error == 0 - 2
\* "total_ips": len(banned_ips), the number the message reports
total_ips == Len(order)

\* variant: response.raise_for_status() in place of the if
status_check_raise(st, next) == IF st # 200 THEN "PostRaised" ELSE next
\* if response.status != 200: console.print(...); the function returns
status_check(st, next) == next
\* async with session.post(...) as response: if response.status != 200: ...
post(method, content, error, next) ==
    \E st \in PostStatuses :
        /\ sent' = Append(sent, <<method, content, st>>)
        /\ console' = IF st # 200 THEN Append(console, error) ELSE console
        /\ phase' = status_check(st, next)

send_stats_to_telegram ==
    /\ phase = "Saved"
    /\ post("sendMessage", total_ips, stats_error, "StatsSent")
    /\ UNCHANGED <<listing, max_concurrent_requests, order, banned_ips, pc,
                   data, exc, status, acquired, waiters, total,
                   completed, rows>>

send_file_to_telegram ==
    /\ phase = "StatsSent"
    /\ post("sendDocument", Len(rows), file_error, "Finished")
    /\ UNCHANGED <<listing, max_concurrent_requests, order, banned_ips, pc,
                   data, exc, status, acquired, waiters, total,
                   completed, rows>>

\* session.post raises (the bot API is not reachable): nothing catches the
\* exception, it leaves main after the report was saved
post_raises ==
    /\ phase \in {"Saved", "StatsSent"}
    /\ phase' = "PostRaised"
    /\ UNCHANGED <<listing, max_concurrent_requests, order, banned_ips, pc,
                   data, exc, status, acquired, waiters, total,
                   completed, console, rows, sent>>

Next ==
    \/ main_start
    \/ subprocess_run
    \/ fetch_ips_from_iptables
    \/ process_ips
    \/ \E ip \in IPs : task_start(ip)
    \/ \E ip \in IPs : response(ip)
    \/ \E ip \in IPs : request_error(ip)
    \/ \E ip \in IPs : json(ip)
    \/ \E ip \in IPs : timeout(ip)
    \/ \E ip \in IPs : line75(ip)
    \/ \E ip \in IPs : line76(ip)
    \/ \E ip \in IPs : line77(ip)
    \/ \E ip \in IPs : handler(ip)
    \/ \E ip \in IPs : finally(ip)
    \/ gather
    \/ save_to_excel
    \/ send_stats_to_telegram
    \/ send_file_to_telegram
    \/ post_raises

Spec == Init /\ [][Next]_vars

\* the steps the program takes by itself; the peer's answers (response,
\* request_error, json) are not among them: the peer may stay silent
Program ==
    \/ main_start
    \/ subprocess_run
    \/ fetch_ips_from_iptables
    \/ process_ips
    \/ \E ip \in IPs : task_start(ip)
    \/ \E ip \in IPs : line75(ip)
    \/ \E ip \in IPs : line76(ip)
    \/ \E ip \in IPs : line77(ip)
    \/ \E ip \in IPs : handler(ip)
    \/ \E ip \in IPs : finally(ip)
    \/ gather
    \/ save_to_excel
    \/ send_stats_to_telegram
    \/ send_file_to_telegram

\* the event loop keeps running the program, and the timer of every call
\* fires unless the call ends before
FairSpec ==
    /\ Spec
    /\ WF_vars(Program)
    /\ \A ip \in IPs : WF_vars(timeout(ip))

TypeOK ==
    /\ phase \in {"Idle", "Discovering", "Listed", "Discovered", "Enriching", "Completed",
                  "Saved", "StatsSent", "Finished", "PostRaised", "Aborted"}
    /\ Range(order) = DOMAIN banned_ips
    /\ acquired \in 0..Cardinality(IPs)
    /\ completed \in 0..Cardinality(IPs)

(* ======================= properties ======================= *)
Keys == DOMAIN banned_ips
InFlight == {ip \in IPs : pc[ip] \in {"get", "json"}}
AtCompleted == phase \in {"Completed", "Saved", "StatsSent", "Finished", "PostRaised"}
AfterSave == phase \in {"Saved", "StatsSent", "Finished", "PostRaised"}
Pos(ip) == CHOOSE i \in 1..Len(order) : order[i] = ip
Empty(v) == v \in {None, ""}
\* the keys are fixed when fetch_ips_from_iptables has returned
KeysFixed ==
    [][phase \notin {"Idle", "Discovering", "Listed"} => order' = order]_vars

\* C1: at most max_concurrent_requests lookup calls hold a connection of
\* the host at the same time
C1_AtMostNInFlight == Cardinality(InFlight) <= max_concurrent_requests

\* all slots are taken and a further request waits
C1_Witness ==
    /\ Cardinality(InFlight) = max_concurrent_requests
    /\ waiters # <<>>

\* C2: every ended task has advanced the bar exactly once, and process_ips
\* has returned only when every key has done so: completed equals the number
\* of keys and no record is pending
C2_CompletedAfterAll ==
    /\ completed = Cardinality({ip \in IPs : pc[ip] \in {"done", "raised"}})
    /\ AtCompleted =>
        /\ completed = Len(order)
        /\ completed = total
        /\ \A ip \in Keys : pc[ip] = "done" /\ status[ip] \in {"ok", "failed"}

\* completed with a success, a status that is not 200 and an exception
C2_Witness ==
    /\ phase = "Completed"
    /\ \E a, b, c \in Keys :
         /\ status[a] = "ok"
         /\ status[b] = "failed" /\ b \notin Range(console)
         /\ status[c] = "failed" /\ c \in Range(console)

\* C3: a failed lookup never raises out of fetch_ip_data: no task ends with
\* an exception, gather never raises, and when the batch is completed the
\* other keys are all recorded
C3_FailureConfined ==
    /\ phase # "Aborted"
    /\ \A ip \in IPs : pc[ip] # "raised"
    /\ \A ip \in IPs : pc[ip] \in {"finally", "done"} => exc[ip] = None
    /\ AtCompleted => \A ip \in Keys : status[ip] \in {"ok", "failed"}

\* one lookup failed with an exception, another one filled its record
C3_Witness ==
    /\ phase = "Completed"
    /\ \E a, b \in Keys :
         /\ status[a] = "failed" /\ a \in Range(console)
         /\ status[b] = "ok" /\ banned_ips[b].provider = "Google"

\* C4: at Completed the record of every key whose lookup failed has the
\* three fields country, city and provider empty
C4_FailedRecordEmpty ==
    AtCompleted =>
        \A ip \in Keys :
            status[ip] = "failed" =>
                /\ Empty(banned_ips[ip].country)
                /\ Empty(banned_ips[ip].city)
                /\ Empty(banned_ips[ip].provider)

\* the first address of a line, Word when the line has none
FirstAddr(line) ==
    IF \A i \in 1..Len(line) : line[i] = Word THEN Word
    ELSE line[CHOOSE i \in 1..Len(line) :
                line[i] # Word /\ \A j \in 1..(i - 1) : line[j] = Word]
\* the unique keys of the listing
Discovered == {FirstAddr(listing[i]) : i \in 1..Len(listing)} \ {Word}
\* the line on which a key appears first
FirstLine(k) ==
    CHOOSE i \in 1..Len(listing) :
        FirstAddr(listing[i]) = k /\ \A j \in 1..(i - 1) : FirstAddr(listing[j]) # k
RowKeys == [i \in 1..Len(rows) |-> rows[i][1]]

\* C5: the loop over the listing leaves exactly one key per unique key of
\* the listing, the keys stay as they are, and the saved rows hold exactly
\* one row per key
C5_OneRowPerKey ==
    /\ [][phase = "Listed" =>
            /\ Range(order') = Discovered
            /\ Len(order') = Cardinality(Discovered)]_vars
    /\ KeysFixed
    /\ [](AfterSave =>
            /\ Len(rows) = Len(order)
            /\ Range(RowKeys) = Range(order)
            /\ \A i, j \in 1..Len(rows) : rows[i][1] = rows[j][1] => i = j)

\* several rows saved, of lookups that succeeded and that failed
C5_Witness ==
    /\ AfterSave
    /\ Len(rows) >= 2
    /\ \E a, b \in Keys : status[a] = "ok" /\ status[b] = "failed"

\* C6: the loop over the listing leaves the keys in the order of their first
\* appearance, and the saved rows are in that order whatever the order in
\* which the lookups ended
C6_DiscoveryOrder ==
    /\ [][phase = "Listed" =>
            /\ Range(order') = Discovered
            /\ \A i, j \in 1..Len(order') :
                 i < j => FirstLine(order'[i]) < FirstLine(order'[j])]_vars
    /\ KeysFixed
    /\ [](AfterSave => RowKeys = order)

\* the rows are not ascending, and two lookups ended (with an error line) in
\* the reverse of their discovery order
C6_Witness ==
    /\ AfterSave
    /\ \E i \in 1..(Len(rows) - 1) : rows[i][1] > rows[i + 1][1]
    /\ \E i, j \in 1..Len(console) :
         /\ i < j
         /\ console[i] \in Keys /\ console[j] \in Keys
         /\ Pos(console[i]) > Pos(console[j])

\* C7: a record is created at discovery and never deleted, its status goes
\* from pending to ok or failed once and then stays, a field that was
\* assigned is never assigned again, the record of an ended task never
\* changes, and between the assignments of lines 75-77 no other task runs
C7_RecordWrittenOnce ==
    [][ /\ Keys # {} => Keys' = Keys
        /\ \A ip \in Keys :
             /\ status[ip] \in {"ok", "failed"} => status'[ip] = status[ip]
             /\ status[ip] = "pending" => status'[ip] \in {"pending", "ok", "failed"}
             /\ pc[ip] \in {"done", "finally", "except"} => banned_ips'[ip] = banned_ips[ip]
             /\ \A f \in {"country", "city", "provider"} :
                  banned_ips[ip][f] # None => banned_ips'[ip][f] = banned_ips[ip][f]
             /\ pc[ip] \in {"l76", "l77"} =>
                  /\ completed' = completed
                  /\ \A q \in IPs \ {ip} :
                       /\ pc'[q] = pc[q]
                       /\ q \in Keys => banned_ips'[q] = banned_ips[q]
      ]_vars

\* a task is between its assignments while another call has its body ready
C7_Witness ==
    \E a, b \in Keys :
        /\ pc[a] = "l76" /\ banned_ips[a].country = "US"
        /\ pc[b] = "json"

\* C8: the slots held are exactly the calls in flight, and none is held once
\* every call has ended, whatever its outcome
C8_SlotsReleased ==
    /\ acquired = Cardinality(InFlight)
    /\ Range(waiters) = {ip \in IPs : pc[ip] = "waiting"}
    /\ (\A ip \in IPs : pc[ip] \in Ended) => acquired = 0 /\ waiters = <<>>

\* calls ended by a status that is not 200 and by an exception, all slots free
C8_Witness ==
    /\ phase = "Completed"
    /\ acquired = 0
    /\ \E a, b \in Keys :
         /\ status[a] = "failed" /\ a \in Range(console)
         /\ status[b] = "failed" /\ b \notin Range(console)

\* C9: every run reaches Completed
C9_EventuallyCompleted == <>(phase = "Completed")

\* no call had to wait for a slot, the last call in flight was ended by the
\* timeout and has given its slot back
C9_Witness ==
    /\ Len(order) = max_concurrent_requests
    /\ acquired = 0
    /\ \E ip \in Keys :
         /\ pc[ip] = "except" /\ exc[ip] = "TimeoutError"
         /\ \A q \in Keys \ {ip} : pc[q] = "done"

\* C10: a request gets a connection only when no request submitted before
\* it is still waiting
C10_FifoAdmission ==
    [][ \A ip, q \in Keys :
          ( /\ pc[ip] \in {"ready", "waiting"} /\ pc'[ip] = "get"
            /\ pc[q] = "waiting" /\ q # ip )
          => Pos(ip) < Pos(q)
      ]_vars

\* one slot, the second of three requests is admitted, the third waits
C10_Witness ==
    /\ max_concurrent_requests = 1
    /\ Len(order) = 3
    /\ pc[order[1]] = "done"
    /\ pc[order[2]] = "get"
    /\ pc[order[3]] = "waiting"

\* the states of the pipeline in their order: Idle, Discovering (until
\* fetch_ips_from_iptables has returned), Enriching, Completed
Stage ==
    CASE phase = "Idle" -> 0
      [] phase \in {"Discovering", "Listed"} -> 1
      [] phase \in {"Discovered", "Enriching"} -> 2
      [] OTHER -> 3
NoCallIssued ==
    /\ \A ip \in IPs : pc[ip] = "none" /\ status[ip] = "none"
    /\ acquired = 0 /\ waiters = <<>> /\ completed = 0

\* C11: the pipeline goes through Idle, Discovering, Enriching, Completed in
\* this order, one state at a time; a run without keys issues no lookup call
\* and is completed with no row
C11_StateOrder ==
    /\ [][Stage' = Stage \/ Stage' = Stage + 1]_vars
    /\ [](phase # "Aborted")
    /\ []((Stage >= 2 /\ order = <<>>) => NoCallIssued)
    /\ []((AfterSave /\ order = <<>>) => rows = <<>>)

\* a listing without a key: the report is saved with no row
C11_Witness ==
    /\ phase = "Saved"
    /\ order = <<>>
    /\ rows = <<>>
    /\ console = <<>>
    /\ total = 0

DiscoveryFailed == Word \in Range(console)

\* C12: when the listing source raises or gives no line, the run is not
\* aborted: no key is discovered, process_ips is entered and the run is
\* completed with zero keys
C12_DiscoveryErrorNotFatal ==
    /\ [](DiscoveryFailed => (order = <<>> /\ phase \notin {"Aborted", "Listed"}))
    /\ [][(phase = "Listed" /\ listing = <<>>) =>
             (order' = <<>> /\ phase' = "Discovered")]_vars
    /\ []((phase = "Discovered" /\ order = <<>>) =>
             <>(phase = "Completed" /\ completed = 0 /\ total = 0))

\* the listing source raised and the run went on to its end
C12_Witness ==
    /\ DiscoveryFailed
    /\ phase = "Finished"
    /\ rows = <<>>

\* the value of a field of a well-formed body: the empty string when the
\* path to it is absent at some level
Expected(level, val) == IF level = "Val" THEN val ELSE ""

\* C13: after status 200 and a well-formed body the three assignments never
\* raise: every field gets the value of the body, or the empty string when
\* it is absent at any level, and the record becomes ok
C13_AbsentFieldsDefault ==
    [][ \A ip \in Keys :
          /\ pc[ip] = "l75" =>
                /\ pc'[ip] = "l76"
                /\ banned_ips'[ip].country = Expected(data[ip].country, "US")
          /\ pc[ip] = "l76" =>
                /\ pc'[ip] = "l77"
                /\ banned_ips'[ip].city = Expected(data[ip].city, "Mountain View")
          /\ pc[ip] = "l77" =>
                /\ pc'[ip] = "finally"
                /\ banned_ips'[ip].provider = Expected(data[ip].traits, "Google")
                /\ status'[ip] = "ok"
      ]_vars

\* the keys whose lookup has ended and has been counted
Recorded == {ip \in Keys : pc[ip] \in {"done", "raised"}}

\* C14: the completed count of the bar never decreases, grows by one at a
\* time, never exceeds the total, and equals the number of keys whose lookup
\* has been recorded; between two callbacks of the loop these are the keys
\* that are no longer pending
C14_CompletedCount ==
    /\ [][completed' = completed \/ completed' = completed + 1]_vars
    /\ [](completed <= total /\ total <= Len(order))
    /\ [](completed = Cardinality(Recorded))
    /\ [](LoopFree =>
            completed = Cardinality({ip \in Keys : status[ip] \in {"ok", "failed"}}))

\* the bar stands at 2 of 3 after a success and a failure
C14_Witness ==
    /\ total = 3
    /\ completed = 2
    /\ \E a, b \in Keys : status[a] = "ok" /\ status[b] = "failed"
    /\ \E c \in Keys : pc[c] = "get"

\* the peer of the call answers: the head of the response or its body
Answers(ip) == response(ip) \/ json(ip)
\* every task waits at an await or has ended
AllWaiting == \A ip \in IPs : pc[ip] \in {"none", "waiting", "get", "json", "done"}

\* C15: a call that is stalled in flight does not keep another call in
\* flight from being answered and recorded, and a slot that another call
\* gives back goes to the oldest waiting call at once
C15_StalledCallBlocksNobody ==
    /\ []((phase = "Enriching" /\ AllWaiting) =>
            \A a, b \in Keys :
                (a # b /\ pc[a] \in {"get", "json"} /\ pc[b] \in {"get", "json"})
                => ENABLED Answers(b))
    /\ [][ \A a, b \in Keys :
             ( /\ a # b
               /\ pc[a] \in {"get", "json"} /\ pc'[a] = pc[a]
               /\ pc[b] \in {"get", "json"} /\ pc'[b] \notin {"get", "json"}
               /\ waiters # <<>> )
             => pc'[Head(waiters)] = "get"
       ]_vars

\* two slots: the first call is still waiting for its answer, the second
\* one has ended, and the third one got its slot and has ended with a record
C15_Witness ==
    /\ max_concurrent_requests = 2
    /\ Len(order) = 3
    /\ pc[order[1]] = "get"
    /\ pc[order[2]] = "done"
    /\ pc[order[3]] = "done" /\ status[order[3]] = "ok"

\* how far a task has come in fetch_ip_data
Rank(label) ==
    CASE label = "none" -> 0
      [] label = "ready" -> 1
      [] label = "waiting" -> 2
      [] label = "get" -> 3
      [] label = "json" -> 4
      [] label = "l75" -> 5
      [] label = "l76" -> 6
      [] label = "l77" -> 7
      [] label = "except" -> 8
      [] label = "finally" -> 9
      [] OTHER -> 10

\* C16: no call is made a second time: a task only moves forward in
\* fetch_ip_data, so it sends its request at most once, and a key that has
\* failed stays failed with the record it has
C16_NoRetry ==
    /\ [][\A ip \in IPs : Rank(pc'[ip]) >= Rank(pc[ip])]_vars
    /\ [][\A ip \in IPs : pc'[ip] = "get" /\ pc[ip] # "get"
                            => pc[ip] \in {"ready", "waiting"}]_vars
    /\ [][\A ip \in Keys : status[ip] = "failed"
                            => /\ status'[ip] = "failed"
                               /\ ip \in DOMAIN banned_ips'
                               /\ banned_ips'[ip] = banned_ips[ip]]_vars

\* the run is complete, a call has raised and was printed, and its key is
\* still failed with the default record
C16_Witness ==
    /\ phase = "Completed"
    /\ \E ip \in Keys :
         /\ status[ip] = "failed"
         /\ pc[ip] = "done"
         /\ ip \in Range(console)
         /\ banned_ips[ip] = default_factory

\* the lines of the listing that hold an address
Matching == {i \in 1..Len(listing) : FirstAddr(listing[i]) # Word}

\* C17: when the loop over the listing has ended, every key is the first
\* address of a line, a line without an address gives no key, a key that
\* is on several lines is there once with one record, and gather starts
\* one call per key
C17_OneKeyPerLine ==
    /\ [](phase = "Discovered" =>
            /\ Range(order) = Discovered
            /\ Len(order) <= Cardinality(Matching)
            /\ \A i, j \in 1..Len(order) : order[i] = order[j] => i = j
            /\ DOMAIN banned_ips = Range(order))
    /\ [][phase = "Discovered" =>
            /\ \A ip \in IPs : pc'[ip] = "ready" <=> ip \in Discovered
            /\ total' = Cardinality(Discovered)]_vars

\* the listing has a line without an address and two lines with the same
\* first address; the other addresses of the lines are not keys
C17_Witness ==
    /\ phase = "Discovered"
    /\ Len(order) = 1
    /\ \E i \in 1..Len(listing) : FirstAddr(listing[i]) = Word
    /\ \E i, j \in Matching : i < j /\ FirstAddr(listing[i]) = FirstAddr(listing[j])
    /\ \E i \in Matching : \E t \in 1..Len(listing[i]) :
           ban_regex(listing[i][t]) /\ listing[i][t] \notin Range(order)

\* C18: the two notifications are sent after the run is completed and the
\* rows are saved, the message first and the file second; an answer other
\* than 200 is printed and the run goes on to its next step; no
\* notification step touches the keys, the records or the rows, and the
\* message reports the number of keys, whatever the lookups gave
C18_NotifyAfterReport ==
    /\ [][sent' # sent =>
            /\ phase \in {"Saved", "StatsSent"}
            /\ \A ip \in Keys : pc[ip] = "done"
            /\ completed = total
            /\ Len(rows) = Len(order)]_vars
    /\ [](/\ Len(sent) <= 2
          /\ (Len(sent) >= 1 => sent[1][1] = "sendMessage" /\ sent[1][2] = Len(order))
          /\ (Len(sent) = 2 => sent[2][1] = "sendDocument" /\ sent[2][2] = Len(rows))
          /\ (phase = "StatsSent" => Len(sent) = 1)
          /\ (phase = "Finished" => Len(sent) = 2))
    /\ [][(sent' # sent /\ sent'[Len(sent')][3] # 200) =>
            /\ phase' = (IF phase = "Saved" THEN "StatsSent" ELSE "Finished")
            /\ Len(console') = Len(console) + 1
            /\ console'[Len(console')] =
                 (IF phase = "Saved" THEN stats_error ELSE file_error)]_vars
    /\ [][AfterSave => UNCHANGED <<order, banned_ips, status, rows, completed>>]_vars

\* some lookup failed, the message was refused and printed, and the file
\* was sent all the same
C18_Witness ==
    /\ phase = "Finished"
    /\ \E a, b \in Keys : status[a] = "failed" /\ status[b] = "ok"
    /\ sent[1][3] = 400 /\ stats_error \in Range(console)
    /\ sent[2][3] = 200
    /\ sent[1][2] = 2

\* the task of the key is at one of the assignments of lines 75-77
Writing(ip) == pc[ip] \in {"l75", "l76", "l77"}

\* C19: while the lookups run, a step changes the record of at most one
\* key, and that step is an assignment of the call of that key; no step
\* adds or removes a key, from the return of fetch_ips_from_iptables on
C19_OwnRecordOnly ==
    /\ [][phase = "Enriching" =>
            \A k \in Keys :
                banned_ips'[k] # banned_ips[k] =>
                    /\ Writing(k) /\ pc'[k] # pc[k]
                    /\ \A j \in Keys \ {k} :
                         banned_ips'[j] = banned_ips[j] /\ pc'[j] = pc[j]]_vars
    /\ [][phase \notin {"Idle", "Discovering", "Listed"} =>
            DOMAIN banned_ips' = DOMAIN banned_ips /\ order' = order]_vars
    /\ [](phase \notin {"Idle", "Discovering", "Listed"} =>
            DOMAIN banned_ips = Range(order))

\* a call is between its assignments with its country set, while another
\* call waits for its body and its record is still the default one
C19_Witness ==
    /\ phase = "Enriching"
    /\ \E a, b \in Keys :
         /\ a # b
         /\ pc[a] = "l77" /\ banned_ips[a].country = "US"
         /\ pc[b] = "json" /\ banned_ips[b] = default_factory

====
